---- MODULE Spec2Model ----
(***************************************************************************)
(* Service-control HTTP filter of the API proxy: per-request call state    *)
(* machine (token fetch -> Check -> forward/reject -> Report).             *)
(* The filter's handlers are modelled as operators over a per-request      *)
(* context record `c`; each action of Next is one whole handler or one     *)
(* callback delivered by the host, the token cache or the HTTP call.       *)
(***************************************************************************)
EXTENDS Integers, Sequences, FiniteSets, TLC

VARIABLES
  req,          \* per request: the Filter object and what its collaborators saw
  stats,        \* config_->stats(): the allowed_ / denied_ counters
  next_uuid,    \* config_->random(): source of fresh operation ids
  max_retries,  \* configured Check retry budget (--service_control_check_retries)
  cache,        \* the worker's TokenCache, as its callers see it
  path_matcher_ \* FilterConfigParser::path_matcher_ and what was asked of it

vars == <<req, stats, next_uuid, max_retries, cache, path_matcher_>>

\* ------------------------------------------------------------------ bounds
\* Largest configured retry budget explored (the integration test runs 2).
MaxRetries == 2

\* How many times the host may call onDestroy on one filter.
MaxDestroyCalls == 2

\* Callers of the token cache, and outbound credential fetches explored.
NumCallers == 3
MaxFetches == 3

\* Url templates registered with the path matcher at configuration load.
MaxInserts == 3

\* Filter objects are per request and share only the counters and the uuid
\* source; the request whose life is explored.
Reqs == {1}

\* ------------------------------------------------------------- input sets
Tokens == {"tokA", "tokB"}

\* Request headers: :method, :path split at the query string, and the other
\* header entries of the map.
RequestHeaders ==
  { [method |-> "POST", path |-> "/echo", query |-> q, entries |-> <<>>] :
        q \in {<<>>, << <<"key", "api-key">> >>} }
  \cup
  { [method |-> "GET", path |-> "/v1/shelves", query |-> q, entries |-> <<>>] :
        q \in {<<>>, << <<"key", "api-key">> >>} }
  \cup
  { [method |-> "POST", path |-> "/echo/nokey", query |-> <<>>, entries |-> <<>>] }
  \cup
  { [method |-> "GET", path |-> "/v1/shelves", query |-> q,
     entries |-> << <<"x-api-key", "header-key">> >>] :
        q \in {<<>>, << <<"key", "api-key">> >>} }

\* Operations whose usage rule sets SkipServiceControl (operation "Echo",
\* reached by POST /echo in the integration test).
SkipServiceControl == {"/echo"}

\* Operations that may be called without an api key (operation "Echo_nokey",
\* reached by POST /echo/nokey in the integration test).
AllowUnregisteredCalls == {"/echo/nokey"}

\* Statuses a failed token fetch is reported with.
TokenFailures == {"UNAVAILABLE", "INTERNAL"}

\* Statuses a failed Check call is reported with.
CallFailures == {"UNAVAILABLE", "DEADLINE_EXCEEDED"}

\* Check response bodies: unparsable JSON, or a CheckResponse with a list
\* of check errors.
CheckErrorLists ==
  {<<>>, <<"API_KEY_INVALID">>, <<"SERVICE_NOT_ACTIVATED">>, <<"PERMISSION_DENIED">>}

Bodies ==
  {[json_ok |-> FALSE, errors |-> <<>>]}
  \cup {[json_ok |-> TRUE, errors |-> e] : e \in CheckErrorLists}

NoBody == [json_ok |-> FALSE, errors |-> <<>>]

\* Outcome of one Check attempt on the wire: no response (transport error
\* or per-attempt timeout), or an HTTP response carrying a body.
TransportError == [kind |-> "error", body |-> NoBody]
Outcomes == {TransportError} \cup {[kind |-> "response", body |-> b] : b \in Bodies}

RECURSIVE Errs(_)
Errs(k) == IF k = 0 THEN <<>> ELSE <<TransportError>> \o Errs(k - 1)

\* What an HTTP call may deliver before call() returns: nothing (the first
\* attempt stays in flight), or some attempts completing inline.
InlineScripts(R) ==
  {Errs(k) : k \in 0..(R + 1)}
  \cup {Errs(k) \o <<[kind |-> "response", body |-> b]>> : k \in 0..R, b \in Bodies}

\* ------------------------------------------------------------ initial data
DefaultCheckResponseInfo == [is_api_key_valid |-> TRUE, service_is_activated |-> TRUE]

NewFilter ==
  [ \* Filter members
    state_ |-> "Init", stopped_ |-> FALSE,
    token_fetcher_ |-> FALSE, check_call_ |-> FALSE,
    token_ |-> "", uuid_ |-> 0, operation_name_ |-> "", api_key_ |-> "",
    http_method_ |-> "",
    check_status_ |-> "OK",
    check_response_info_ |-> DefaultCheckResponseInfo,
    \* decoder_callbacks_ / host stream
    rets |-> {}, continued |-> 0, replies |-> <<>>, response_code |-> 0,
    unauthorized_flag |-> FALSE, body_ended |-> FALSE,
    request_headers |-> <<>>,
    destroyed |-> FALSE, destroy_calls |-> 0, logged |-> FALSE,
    \* callbacks the collaborators invoked after the request was rejected
    late |-> {},
    \* token cache subscription of this request
    sub |-> "none", sub_token |-> "", sub_cancels |-> 0,
    \* the Check HttpCall of this request
    attempts |-> 0, fails |-> 0, inflight |-> FALSE, call_cancels |-> 0,
    check_result |-> [kind |-> "none", body |-> NoBody],
    \* the Report HttpCall of this request
    report |-> "none",
    \* what the policy backend was sent for this request, in dispatch order
    sc |-> <<>> ]

FilterFields == DOMAIN NewFilter

\* The context a handler runs in: the request's record plus the shared
\* counters and the uuid source.
Ctx(r) ==
  [k \in FilterFields \cup {"allowed_", "denied_", "next_uuid"} |->
      IF k = "allowed_" THEN stats.allowed_
      ELSE IF k = "denied_" THEN stats.denied_
      ELSE IF k = "next_uuid" THEN next_uuid
      ELSE req[r][k]]

\* Variant: the call state is one static member shared by every filter.
CommitSharedState(r, c) ==
  /\ req' = [q \in DOMAIN req |->
               IF q = r THEN [k \in FilterFields |-> c[k]]
               ELSE [req[q] EXCEPT !.state_ = c.state_]]
  /\ stats' = [allowed_ |-> c.allowed_, denied_ |-> c.denied_]
  /\ next_uuid' = c.next_uuid
  /\ UNCHANGED <<max_retries, cache, path_matcher_>>

Commit(r, c) ==
  /\ req' = [req EXCEPT ![r] = [k \in FilterFields |-> c[k]]]
  /\ stats' = [allowed_ |-> c.allowed_, denied_ |-> c.denied_]
  /\ next_uuid' = c.next_uuid
  /\ UNCHANGED <<max_retries, cache, path_matcher_>>

\* -------------------------------------------------------------- TokenCache
\* The cache of one credential key. A token lives TokenTtl ticks after it
\* was fetched and is refreshed once no more than RefreshMargin of them are
\* left. `ttl` is what is left of the cached token, `fetches` counts the
\* outbound credential fetches begun, `done` those that ended, `waiters`
\* are the callers queued behind the fetch in flight, and `got` is what each
\* caller's callback was invoked with and by which fetch (0: by none, the
\* cached token was handed out).
TokenTtl == 2
RefreshMargin == 1

Callers == 1..NumCallers

NoResult ==
  [status |-> "none", token |-> "", fetch |-> 0, invoked |-> 0,
   begun |-> 0, ended |-> 0, trig |-> FALSE]

NewTokenCache ==
  [token |-> "", ttl |-> 0, fetching |-> FALSE, fetches |-> 0, done |-> 0,
   last |-> "none", waiters |-> {}, got |-> [k \in Callers |-> NoResult]]

tokenValid(ch) == ch.token # "" /\ ch.ttl > 0

tokenFresh(ch) == tokenValid(ch) /\ ch.ttl > RefreshMargin

startFetch(ch) ==
  [ch EXCEPT !.fetching = TRUE, !.fetches = @ + 1]

\* Caller k's GetToken is noted: how many fetches were begun and ended when
\* it returned, and whether it began one itself.
noteCall(ch, before, k) ==
  [ch EXCEPT !.got[k].begun = ch.fetches, !.got[k].ended = ch.done,
             !.got[k].trig = (ch.fetches > before.fetches)]

\* Caller k's callback is invoked with the cached token.
serveCached(ch, k) ==
  [ch EXCEPT !.got[k].status = "OK", !.got[k].token = ch.token,
             !.got[k].invoked = @ + 1]

\* Caller k is queued behind the fetch in flight.
enqueue(ch, k) ==
  [ch EXCEPT !.waiters = @ \cup {k}, !.got[k].status = "waiting"]

\* Variant: a caller that finds no valid token always starts its own fetch.
cacheGetTokenOwnFetch(ch, k) ==
  IF tokenValid(ch)
    THEN LET served == serveCached(ch, k)
         IN  noteCall(IF tokenFresh(ch) \/ ch.fetching
                        THEN served ELSE startFetch(served), ch, k)
    ELSE noteCall(startFetch(enqueue(ch, k)), ch, k)

\* Variant: inside the safety margin a caller is queued behind the refresh
\* instead of being handed the token that is still valid.
cacheGetTokenQueuesInMargin(ch, k) ==
  IF tokenFresh(ch)
    THEN noteCall(serveCached(ch, k), ch, k)
    ELSE LET queued == enqueue(ch, k)
         IN  noteCall(IF ch.fetching THEN queued ELSE startFetch(queued), ch, k)

\* GetToken(key, callback) by caller k. A valid token is handed out at once,
\* and past the safety margin a refresh is begun unless one is in flight;
\* without a valid token the caller waits for the fetch, begun if need be.
cacheGetToken(ch, k) ==
  IF tokenValid(ch)
    THEN LET served == serveCached(ch, k)
         IN  noteCall(IF tokenFresh(ch) \/ ch.fetching
                        THEN served ELSE startFetch(served), ch, k)
    ELSE LET queued == enqueue(ch, k)
         IN  noteCall(IF ch.fetching THEN queued ELSE startFetch(queued), ch, k)

\* Every queued callback is invoked with the result of the fetch.
fanOut(ch, status, token) ==
  [ch EXCEPT !.waiters = {},
             !.got = [k \in Callers |->
                        IF k \in ch.waiters
                          THEN [@[k] EXCEPT !.status = status, !.token = token,
                                            !.fetch = ch.fetches,
                                            !.invoked = @ + 1]
                          ELSE @[k]]]

\* Variant: on failure the queue is dropped without invoking anyone.
cacheFetchDoneDropsWaiters(ch, status, token) ==
  LET ended == [ch EXCEPT !.fetching = FALSE, !.done = @ + 1] IN
  IF status = "OK"
    THEN [fanOut(ended, "OK", token) EXCEPT
            !.token = token, !.ttl = TokenTtl, !.last = "OK"]
    ELSE [ended EXCEPT !.waiters = {}, !.last = "TokenFetchError"]

\* Variant: a failed fetch clears the cached token.
cacheFetchDoneClearsToken(ch, status, token) ==
  LET ended == [ch EXCEPT !.fetching = FALSE, !.done = @ + 1] IN
  IF status = "OK"
    THEN [fanOut(ended, "OK", token) EXCEPT
            !.token = token, !.ttl = TokenTtl, !.last = "OK"]
    ELSE [fanOut(ended, "TokenFetchError", "") EXCEPT
            !.token = "", !.ttl = 0, !.last = "TokenFetchError"]

\* The fetch in flight resolves: with a token, which is cached for TokenTtl,
\* or with a failure, which leaves the cached token as it is.
cacheFetchDone(ch, status, token) ==
  LET ended == [ch EXCEPT !.fetching = FALSE, !.done = @ + 1] IN
  IF status = "OK"
    THEN [fanOut(ended, "OK", token) EXCEPT
            !.token = token, !.ttl = TokenTtl, !.last = "OK"]
    ELSE [fanOut(ended, "TokenFetchError", "") EXCEPT
            !.last = "TokenFetchError"]

\* The refresh timer of the key fires.
cacheRefresh(ch) ==
  IF ~tokenFresh(ch) /\ ~ch.fetching THEN startFetch(ch) ELSE ch

\* Time passes.
cacheTick(ch) ==
  [ch EXCEPT !.ttl = IF @ > 0 THEN @ - 1 ELSE 0]

\* ------------------------------------------------------------- PathMatcher
\* A url template after parsing: its segments in order, each a literal, `*`
\* or `**`, and the variable the segment belongs to ("" for none).
\* `{shelf}` is the segment `*` of variable shelf; `{name=shelves/*}` is the
\* literal shelves and a `*`, both of variable name.
Lit(x) == [kind |-> "lit", lit |-> x, var |-> ""]

Seg(kind, var) == [kind |-> kind, lit |-> "", var |-> var]

VarLit(x, var) == [kind |-> "lit", lit |-> x, var |-> var]

UrlTemplates ==
  { [name |-> "GetBook",
     template |-> <<Lit("v1"), Lit("shelves"), Seg("*", "shelf"),
                    Lit("books"), Seg("*", "book.id")>>],
    [name |-> "GetBookAgain",
     template |-> <<Lit("v1"), Lit("shelves"), Seg("*", "s"),
                    Lit("books"), Seg("*", "b")>>],
    [name |-> "FirstShelfBook",
     template |-> <<Lit("v1"), Lit("shelves"), Lit("1"),
                    Lit("books"), Seg("*", "")>>],
    [name |-> "GetShelfByName",
     template |-> <<Lit("v1"), VarLit("shelves", "name"), Seg("*", "name")>>],
    [name |-> "Any",
     template |-> <<Lit("v1"), Lit("shelves"), Seg("**", "rest")>>] }

HttpMethods == {"GET", "POST"}

\* Concrete values a path segment takes.
SegmentValues == {"1", "5"}

\* The trie transition a template segment compiles to: variable names are
\* not part of it.
TransitionOf(part) == <<part.kind, part.lit>>

CompileTemplate(template) ==
  [i \in DOMAIN template |-> TransitionOf(template[i])]

\* The trie: its nodes, each named by the transitions leading to it from the
\* root, and its leaves in the order they were bound.
EmptyTrie == [nodes |-> {<<>>}, leaves |-> <<>>]

LeavesAt(trie, method, node) ==
  {i \in DOMAIN trie.leaves :
     trie.leaves[i].method = method /\ trie.leaves[i].key = node}

\* Variant: a template whose compiled form is already bound is bound again.
InsertNoDuplicateCheck(trie, method, route) ==
  LET key == CompileTemplate(route.template) IN
  [ok |-> TRUE, error |-> "",
   trie |-> [nodes |-> trie.nodes \cup {SubSeq(key, 1, n) : n \in 0..Len(key)},
             leaves |-> Append(trie.leaves,
                               [method |-> method, key |-> key,
                                value |-> route.name,
                                template |-> route.template])]]

\* Insert(method, template, value)
Insert(trie, method, route) ==
  LET key == CompileTemplate(route.template) IN
  IF LeavesAt(trie, method, key) # {}
    THEN [ok |-> FALSE, error |-> "AmbiguousRouteError", trie |-> trie]
    ELSE [ok |-> TRUE, error |-> "",
          trie |-> [nodes |-> trie.nodes \cup {SubSeq(key, 1, n) : n \in 0..Len(key)},
                    leaves |-> Append(trie.leaves,
                                      [method |-> method, key |-> key,
                                       value |-> route.name,
                                       template |-> route.template])]]

NotFound == [found |-> FALSE, node |-> <<>>]

\* The walk from `node` over the path segments from the i-th on: at each
\* branch the literal child is tried first, then `*`, then `**`, which
\* takes every segment that is left (at least one) and must end in a leaf.
RECURSIVE Walk(_, _, _, _, _)
Walk(trie, method, segs, node, i) ==
  IF i > Len(segs)
    THEN IF LeavesAt(trie, method, node) # {}
           THEN [found |-> TRUE, node |-> node] ELSE NotFound
    ELSE LET lit == Append(node, <<"lit", segs[i]>>)
             one == Append(node, <<"*", "">>)
             many == Append(node, <<"**", "">>)
             r1 == IF lit \in trie.nodes
                     THEN Walk(trie, method, segs, lit, i + 1) ELSE NotFound
             r2 == IF one \in trie.nodes
                     THEN Walk(trie, method, segs, one, i + 1) ELSE NotFound
         IN  IF r1.found THEN r1
             ELSE IF r2.found THEN r2
             ELSE IF many \in trie.nodes /\ LeavesAt(trie, method, many) # {}
               THEN [found |-> TRUE, node |-> many]
             ELSE NotFound

\* The variables of a template in the order of their first occurrence.
RECURSIVE VarsFrom(_, _, _)
VarsFrom(template, i, seen) ==
  IF i > Len(template) THEN <<>>
  ELSE IF template[i].var = "" \/ template[i].var \in seen
    THEN VarsFrom(template, i + 1, seen)
  ELSE <<template[i].var>> \o VarsFrom(template, i + 1, seen \cup {template[i].var})

\* Variant: the bindings come out last variable first.
BindingsReversed(template, segs) ==
  LET names == VarsFrom(template, 1, {})
      Pos(v) == {i \in DOMAIN template : template[i].var = v}
      First(v) == CHOOSE i \in Pos(v) : \A j \in Pos(v) : i <= j
      Last(v) == CHOOSE i \in Pos(v) : \A j \in Pos(v) : i >= j
      Upto(v) == IF template[Last(v)].kind = "**" THEN Len(segs) ELSE Last(v)
      Rev(n) == names[Len(names) + 1 - n]
  IN  [n \in DOMAIN names |->
         <<Rev(n), SubSeq(segs, First(Rev(n)), Upto(Rev(n)))>>]

\* What the leaf's variable-extraction spec captures from a matched path:
\* for each variable the path segments its template segments matched.
Bindings(template, segs) ==
  LET names == VarsFrom(template, 1, {})
      Pos(v) == {i \in DOMAIN template : template[i].var = v}
      First(v) == CHOOSE i \in Pos(v) : \A j \in Pos(v) : i <= j
      Last(v) == CHOOSE i \in Pos(v) : \A j \in Pos(v) : i >= j
      Upto(v) == IF template[Last(v)].kind = "**" THEN Len(segs) ELSE Last(v)
  IN  [n \in DOMAIN names |->
         <<names[n], SubSeq(segs, First(names[n]), Upto(names[n]))>>]

LookupNotFound == [found |-> FALSE, value |-> "", bindings |-> <<>>]

\* A path is an instance of a template: segment by segment, with `**`
\* standing for what is left of the path, one segment at least.
Matches(template, segs) ==
  /\ IF template[Len(template)].kind = "**"
       THEN Len(segs) >= Len(template) ELSE Len(segs) = Len(template)
  /\ \A j \in DOMAIN template :
       template[j].kind = "lit" => template[j].lit = segs[j]

\* Variant: of the templates matching the path, the one bound first wins.
LookupFirstBound(trie, method, segs) ==
  LET hits == {i \in DOMAIN trie.leaves :
                 /\ trie.leaves[i].method = method
                 /\ Matches(trie.leaves[i].template, segs)}
  IN  IF hits = {} THEN LookupNotFound
      ELSE LET leaf == trie.leaves[CHOOSE i \in hits : \A j \in hits : i <= j]
           IN  [found |-> TRUE, value |-> leaf.value,
                bindings |-> Bindings(leaf.template, segs)]

\* Lookup(method, path), the path already split on `/`.
Lookup(trie, method, segs) ==
  LET w == Walk(trie, method, segs, <<>>, 1) IN
  IF ~w.found THEN LookupNotFound
  ELSE LET leaf == trie.leaves[CHOOSE i \in LeavesAt(trie, method, w.node) : TRUE]
       IN  [found |-> TRUE, value |-> leaf.value,
            bindings |-> Bindings(leaf.template, segs)]

\* FilterConfigParser::FindRequirement(http_method, path)
FindRequirement(pm, http_method, path) ==
  Lookup(pm.trie, http_method, path)

\* What `**` is replaced by when a path is made from a template.
Tails == {<<"5">>, <<"1", "books", "5">>}

\* The path made from a template by putting f[i] in place of its i-th
\* segment where that is `*`, and `tail` in place of `**`.
RECURSIVE Fill(_, _, _, _)
Fill(template, f, tail, i) ==
  IF i > Len(template) THEN <<>>
  ELSE (IF template[i].kind = "lit" THEN <<template[i].lit>>
        ELSE IF template[i].kind = "*" THEN <<f[i]>>
        ELSE tail) \o Fill(template, f, tail, i + 1)

Fillings(template) == [DOMAIN template -> SegmentValues] \X Tails

\* The paths looked up: every path made from a template, and two that no
\* template yields.
LookupPaths ==
  UNION { {Fill(r.template, x[1], x[2], 1) : x \in Fillings(r.template)} :
          r \in UrlTemplates }
  \cup { <<"v1">>, <<"v1", "shelves">> }

NoOp ==
  [op |-> "none", method |-> "", arg |-> <<>>, ok |-> FALSE, error |-> "",
   result |-> LookupNotFound]

NewPathMatcher == [trie |-> EmptyTrie, last |-> NoOp]

\* ---------------------------------------------------- host stream callbacks
\* decoder_callbacks_->sendLocalReply(code, msg, nullptr): the host sends the
\* reply to the client; the stream's response code is now `code`.
sendLocalReply(c, code, msg) ==
  [c EXCEPT !.replies = Append(@, [code |-> code, msg |-> msg]),
            !.response_code = IF @ = 0 THEN code ELSE @]

\* decoder_callbacks_->continueDecoding(): the host resumes the filter chain.
continueDecoding(c) ==
  [c EXCEPT !.continued = @ + 1]

\* ------------------------------------------------------------------ Filter
\* Variant: a rejection leaves the call state as it is.
rejectRequestKeepsState(c, code, error_msg) ==
  LET c1 == [c EXCEPT !.denied_ = @ + 1]
      c2 == sendLocalReply(c1, code, error_msg)
  IN  [c2 EXCEPT !.unauthorized_flag = TRUE]

rejectRequest(c, code, error_msg) ==
  LET c1 == [c EXCEPT !.denied_ = @ + 1, !.state_ = "Responded"]
      c2 == sendLocalReply(c1, code, error_msg)
  IN  [c2 EXCEPT !.unauthorized_flag = TRUE]

\* RequestBuilder::ConvertCheckResponse: the first check error decides the
\* status and what it says about the api key and the service.
ConvertCheckResponse(body, info) ==
  IF body.errors = <<>> THEN [status |-> "OK", info |-> info]
  ELSE LET e == Head(body.errors) IN
       IF e = "API_KEY_INVALID"
         THEN [status |-> "INVALID_ARGUMENT",
               info |-> [info EXCEPT !.is_api_key_valid = FALSE]]
       ELSE IF e = "SERVICE_NOT_ACTIVATED"
         THEN [status |-> "PERMISSION_DENIED",
               info |-> [info EXCEPT !.service_is_activated = FALSE]]
       ELSE [status |-> "PERMISSION_DENIED", info |-> info]

\* Variant: a failed Check call is dropped without rejecting the request.
onCheckResponseDropsFailure(c, status, body) ==
  LET c1 == [c EXCEPT !.check_call_ = FALSE] IN
  IF c1.state_ = "Responded" THEN c1
  ELSE IF status # "OK" THEN c1
  ELSE IF ~body.json_ok THEN rejectRequest(c1, 401, "Check failed")
  ELSE LET conv == ConvertCheckResponse(body, c1.check_response_info_)
           c2 == [c1 EXCEPT !.check_status_ = conv.status,
                            !.check_response_info_ = conv.info]
       IN  IF c2.check_status_ # "OK" THEN rejectRequest(c2, 401, "Check failed")
           ELSE LET c3 == [c2 EXCEPT !.allowed_ = @ + 1, !.state_ = "Complete"]
                IN  IF c3.stopped_ THEN continueDecoding(c3) ELSE c3

\* Variant: an allowed Check never resumes the paused request.
onCheckResponseNoResume(c, status, body) ==
  LET c1 == [c EXCEPT !.check_call_ = FALSE] IN
  IF c1.state_ = "Responded" THEN c1
  ELSE IF status # "OK" THEN rejectRequest(c1, 401, "Check failed")
  ELSE IF ~body.json_ok THEN rejectRequest(c1, 401, "Check failed")
  ELSE LET conv == ConvertCheckResponse(body, c1.check_response_info_)
           c2 == [c1 EXCEPT !.check_status_ = conv.status,
                            !.check_response_info_ = conv.info]
       IN  IF c2.check_status_ # "OK" THEN rejectRequest(c2, 401, "Check failed")
           ELSE [c2 EXCEPT !.allowed_ = @ + 1, !.state_ = "Complete"]

\* Variant: a denied Check is answered with the converted status as message.
onCheckResponseLeaksStatus(c, status, body) ==
  LET c1 == [c EXCEPT !.check_call_ = FALSE] IN
  IF c1.state_ = "Responded" THEN c1
  ELSE IF status # "OK" THEN rejectRequest(c1, 401, status)
  ELSE IF ~body.json_ok THEN rejectRequest(c1, 401, "Check failed")
  ELSE LET conv == ConvertCheckResponse(body, c1.check_response_info_)
           c2 == [c1 EXCEPT !.check_status_ = conv.status,
                            !.check_response_info_ = conv.info]
       IN  IF c2.check_status_ # "OK" THEN rejectRequest(c2, 401, conv.status)
           ELSE LET c3 == [c2 EXCEPT !.allowed_ = @ + 1, !.state_ = "Complete"]
                IN  IF c3.stopped_ THEN continueDecoding(c3) ELSE c3

\* Variant: a Check response that does not parse counts as an empty one.
onCheckResponseIgnoresParseError(c, status, body) ==
  LET c1 == [c EXCEPT !.check_call_ = FALSE] IN
  IF c1.state_ = "Responded" THEN c1
  ELSE IF status # "OK" THEN rejectRequest(c1, 401, "Check failed")
  ELSE LET conv == ConvertCheckResponse(body, c1.check_response_info_)
           c2 == [c1 EXCEPT !.check_status_ = conv.status,
                            !.check_response_info_ = conv.info]
       IN  IF c2.check_status_ # "OK" THEN rejectRequest(c2, 401, "Check failed")
           ELSE LET c3 == [c2 EXCEPT !.allowed_ = @ + 1, !.state_ = "Complete"]
                IN  IF c3.stopped_ THEN continueDecoding(c3) ELSE c3

onCheckResponse(c, status, body) ==
  LET c1 == [c EXCEPT !.check_call_ = FALSE] IN
  IF c1.state_ = "Responded" THEN c1
  ELSE IF status # "OK" THEN rejectRequest(c1, 401, "Check failed")
  ELSE IF ~body.json_ok THEN rejectRequest(c1, 401, "Check failed")
  ELSE LET conv == ConvertCheckResponse(body, c1.check_response_info_)
           c2 == [c1 EXCEPT !.check_status_ = conv.status,
                            !.check_response_info_ = conv.info]
       IN  IF c2.check_status_ # "OK" THEN rejectRequest(c2, 401, "Check failed")
           ELSE LET c3 == [c2 EXCEPT !.allowed_ = @ + 1, !.state_ = "Complete"]
                IN  IF c3.stopped_ THEN continueDecoding(c3) ELSE c3

\* ---------------------------------------------------------------- HttpCall
CheckRequest(c) ==
  [type |-> "Check", token |-> c.token_, operation_id |-> c.uuid_,
   operation_name |-> c.operation_name_, api_key |-> c.api_key_,
   status |-> "", response_code |-> 0]

\* One more Check attempt goes on the wire.
HttpCallSend(c) ==
  [c EXCEPT !.attempts = @ + 1, !.inflight = TRUE,
            !.sc = Append(@, CheckRequest(c))]

\* The attempt in flight ends. A transport error or timeout is retried while
\* the retry budget lasts; anything else, or the last failure, is handed to
\* the on_done callback.
\* Variant: when the retry budget is used up the call ends without invoking
\* the callback.
HttpCallAttemptDoneGivesUp(c, outcome) ==
  IF outcome.kind = "error"
    THEN IF c.attempts <= max_retries
           THEN HttpCallSend([c EXCEPT !.fails = @ + 1])
           ELSE [c EXCEPT !.fails = @ + 1, !.inflight = FALSE,
                          !.check_result = outcome]
    ELSE onCheckResponse(
           [c EXCEPT !.inflight = FALSE, !.check_result = outcome],
           "OK", outcome.body)

HttpCallAttemptDone(c, outcome) ==
  IF outcome.kind = "error"
    THEN IF c.attempts <= max_retries
           THEN HttpCallSend([c EXCEPT !.fails = @ + 1])
           ELSE onCheckResponse(
                  [c EXCEPT !.fails = @ + 1, !.inflight = FALSE,
                            !.check_result = outcome],
                  "UNAVAILABLE", NoBody)
    ELSE onCheckResponse(
           [c EXCEPT !.inflight = FALSE, !.check_result = outcome],
           "OK", outcome.body)

RECURSIVE HttpCallRunInline(_, _)
HttpCallRunInline(c, script) ==
  IF script = <<>> \/ ~c.inflight THEN c
  ELSE HttpCallRunInline(HttpCallAttemptDone(c, Head(script)), Tail(script))

\* check_call_->call(suffix_uri, token_, check_request, on_done)
HttpCallCall(c, script) ==
  HttpCallRunInline(HttpCallSend(c), script)

\* check_call_->cancel()
HttpCallCancel(c) ==
  [c EXCEPT !.inflight = FALSE, !.call_cancels = @ + 1]

\* ------------------------------------------------------------------ Filter
\* Variant: the status of the token fetch is not looked at.
onTokenDoneIgnoresStatus(c, status, token, script) ==
  LET c1 == [c EXCEPT !.token_fetcher_ = FALSE] IN
  IF c1.state_ = "Responded" THEN c1
  ELSE LET c2 == [c1 EXCEPT !.token_ = token, !.check_call_ = TRUE]
       IN  HttpCallCall(c2, script)

\* Variant: a failed token fetch rejects, and the Check is sent all the same.
onTokenDoneFallsThrough(c, status, token, script) ==
  LET c1 == [c EXCEPT !.token_fetcher_ = FALSE] IN
  IF c1.state_ = "Responded" THEN c1
  ELSE LET c2 == IF status # "OK"
                   THEN rejectRequest(c1, 401, "Failed to fetch access_token")
                   ELSE c1
           c3 == [c2 EXCEPT !.token_ = token, !.check_call_ = TRUE]
       IN  HttpCallCall(c3, script)

\* Variant: the callback does not look at the call state.
onTokenDoneNoAbort(c, status, token, script) ==
  LET c1 == [c EXCEPT !.token_fetcher_ = FALSE] IN
  IF status # "OK"
    THEN rejectRequest(c1, 401, "Failed to fetch access_token")
  ELSE LET c2 == [c1 EXCEPT !.token_ = token, !.check_call_ = TRUE]
       IN  HttpCallCall(c2, script)

onTokenDone(c, status, token, script) ==
  LET c1 == [c EXCEPT !.token_fetcher_ = FALSE] IN
  IF c1.state_ = "Responded" THEN c1
  ELSE IF status # "OK"
    THEN rejectRequest(c1, 401, "Failed to fetch access_token")
  ELSE LET c2 == [c1 EXCEPT !.token_ = token, !.check_call_ = TRUE]
       IN  HttpCallCall(c2, script)

\* -------------------------------------------------------------- TokenCache
\* getToken(callback): `delivery` says what the cache does before returning:
\* "pending" (the callback is kept for later), or the callback is invoked
\* right away with a token ("OK") or with a failure status.
\* The cache invokes the callback it was given, once.
tokenDeliver(c, status, token, script) ==
  onTokenDone([c EXCEPT !.sub = "delivered",
                        !.sub_token = IF status = "OK" THEN token ELSE ""],
              status, token, script)

getToken(c, delivery, token, script) ==
  IF delivery = "pending"
    THEN [c EXCEPT !.sub = "pending"]
    ELSE tokenDeliver(c, delivery, token, script)

\* The cancel function getToken returned, invoked.
tokenCancel(c) ==
  [c EXCEPT !.sub = IF @ = "pending" THEN "cancelled" ELSE @,
            !.sub_cancels = @ + 1]

\* ------------------------------------------------------------------ Filter
\* Http::Utility::parseQueryString(...).find(name): the value of the first
\* parameter of that name, "" when there is none.
RECURSIVE FindParam(_, _)
FindParam(query, name) ==
  IF query = <<>> THEN ""
  ELSE IF Head(query)[1] = name THEN Head(query)[2]
  ELSE FindParam(Tail(query), name)

\* Variant: the id source is read but not advanced.
ExtractRequestInfoReusesId(c, headers) ==
  LET key == FindParam(headers.query, "key") IN
  [c EXCEPT !.uuid_ = c.next_uuid + 1,
            !.operation_name_ = headers.path,
            !.api_key_ = IF key # "" THEN key ELSE @,
            !.http_method_ = headers.method]

ExtractRequestInfo(c, headers) ==
  LET key == FindParam(headers.query, "key") IN
  [c EXCEPT !.uuid_ = c.next_uuid + 1,
            !.next_uuid = @ + 1,
            !.operation_name_ = headers.path,
            !.api_key_ = IF key # "" THEN key ELSE @,
            !.http_method_ = headers.method]

\* The host stream holds the request's header map and hands it to the filter.
streamHeaders(c, headers) ==
  [c EXCEPT !.request_headers = headers]

\* Variant: the request is marked paused before the token is asked for.
decodeHeadersStopsFirst(c, headers, delivery, token, handle, script) ==
  LET c0 == ExtractRequestInfo(streamHeaders(c, headers), headers)
      c1 == [c0 EXCEPT !.state_ = "Calling", !.stopped_ = TRUE]
      c2 == getToken(c1, delivery, token, script)
      c3 == [c2 EXCEPT !.token_fetcher_ = handle]
  IN  IF c3.state_ = "Complete"
        THEN [c3 EXCEPT !.rets = @ \cup {<<"decodeHeaders", "Continue">>}]
        ELSE [c3 EXCEPT !.stopped_ = TRUE,
                        !.rets = @ \cup {<<"decodeHeaders", "StopIteration">>}]

decodeHeaders(c, headers, delivery, token, handle, script) ==
  LET c0 == ExtractRequestInfo(streamHeaders(c, headers), headers)
      c1 == [c0 EXCEPT !.state_ = "Calling", !.stopped_ = FALSE]
      c2 == getToken(c1, delivery, token, script)
      c3 == [c2 EXCEPT !.token_fetcher_ = handle]
  IN  IF c3.state_ = "Complete"
        THEN [c3 EXCEPT !.rets = @ \cup {<<"decodeHeaders", "Continue">>}]
        ELSE [c3 EXCEPT !.stopped_ = TRUE,
                        !.rets = @ \cup {<<"decodeHeaders", "StopIteration">>}]

\* Variant: teardown puts the call state back to Init.
onDestroyResetsState(c) ==
  LET c1 == IF c.token_fetcher_
              THEN [tokenCancel(c) EXCEPT !.token_fetcher_ = FALSE]
              ELSE c
      c2 == IF c1.check_call_
              THEN [HttpCallCancel(c1) EXCEPT !.check_call_ = FALSE]
              ELSE c1
  IN  [c2 EXCEPT !.state_ = "Init"]

\* Variant: teardown cancels the token fetch but leaves the Check call.
onDestroyKeepsCheck(c) ==
  IF c.token_fetcher_
    THEN [tokenCancel(c) EXCEPT !.token_fetcher_ = FALSE]
    ELSE c

\* Variant: teardown cancels the Check call but leaves the token fetch.
onDestroyKeepsToken(c) ==
  IF c.check_call_
    THEN [HttpCallCancel(c) EXCEPT !.check_call_ = FALSE]
    ELSE c

\* Variant: teardown cancels but keeps both handles.
onDestroyKeepsHandles(c) ==
  LET c1 == IF c.token_fetcher_ THEN tokenCancel(c) ELSE c
      c2 == IF c1.check_call_ THEN HttpCallCancel(c1) ELSE c1
  IN  c2

onDestroy(c) ==
  LET c1 == IF c.token_fetcher_
              THEN [tokenCancel(c) EXCEPT !.token_fetcher_ = FALSE]
              ELSE c
      c2 == IF c1.check_call_
              THEN [HttpCallCancel(c1) EXCEPT !.check_call_ = FALSE]
              ELSE c1
  IN  c2

\* Variant: body data is never held back.
decodeDataStatusNoBuffer(c) ==
  "Continue"

decodeDataStatus(c) ==
  IF c.state_ = "Calling" THEN "StopIterationAndWatermark" ELSE "Continue"

decodeData(c, end_stream) ==
  [c EXCEPT !.rets = @ \cup {<<"decodeData", decodeDataStatus(c)>>},
            !.body_ended = end_stream]

decodeTrailersStatus(c) ==
  IF c.state_ = "Calling" THEN "StopIteration" ELSE "Continue"

decodeTrailers(c) ==
  [c EXCEPT !.rets = @ \cup {<<"decodeTrailers", decodeTrailersStatus(c)>>},
            !.body_ended = TRUE]

\* Readings of std::chrono::system_clock::now().
Clock == {"t1", "t2"}

ReportRequest(c, now) ==
  [type |-> "Report", token |-> c.token_, operation_id |-> c.uuid_,
   operation_name |-> c.operation_name_,
   request_start_time |-> now,
   api_key |-> IF c.check_response_info_.is_api_key_valid
                  /\ c.check_response_info_.service_is_activated
               THEN c.api_key_ ELSE "",
   status |-> c.check_status_,
   response_code |-> IF c.response_code = 0 THEN 500 ELSE c.response_code]

log(c, now) ==
  [c EXCEPT !.logged = TRUE, !.report = "inflight",
            !.sc = Append(@, ReportRequest(c, now))]

\* Variant: a failed Report rejects the request.
dummy_on_done_rejects(c, status) ==
  IF status # "OK" THEN rejectRequest(c, 500, "Report failed") ELSE c

\* The completion callback handed to the Report call: an empty lambda.
dummy_on_done(c, status) ==
  c

\* The Report call ends, well or badly, and invokes its callback.
reportDone(c, status) ==
  dummy_on_done([c EXCEPT !.report = IF status = "OK" THEN "ok" ELSE "failed"],
                status)

\* The backend answered the forwarded request.
backendResponse(c) ==
  [c EXCEPT !.response_code = 200]

\* The host tears the stream down.
streamDestroy(c) ==
  [onDestroy(c) EXCEPT !.destroyed = TRUE, !.destroy_calls = @ + 1]

\* ----------------------------------------------------------------- actions
HeadersForwarded(c) ==
  <<"decodeHeaders", "Continue">> \in c.rets \/ c.continued > 0

\* The host ends the stream (onDestroy) once the response is complete or the
\* stream is reset, and only then runs the access-log handlers (log).
ResponseFinalized(c) ==
  c.destroyed

DecodeHeaders(r) ==
  /\ req[r].state_ = "Init"
  /\ ~req[r].destroyed
  /\ \E headers \in RequestHeaders, delivery \in {"pending", "OK"} \cup TokenFailures,
        token \in Tokens, handle \in BOOLEAN,
        script \in InlineScripts(max_retries) :
       /\ delivery = "pending" => handle
       /\ Commit(r, decodeHeaders(Ctx(r), headers, delivery, token, handle, script))

TokenDone(r) ==
  /\ req[r].sub = "pending"
  /\ \E status \in {"OK"} \cup TokenFailures, token \in Tokens,
        script \in InlineScripts(max_retries) :
       Commit(r, tokenDeliver(Ctx(r), status, token, script))

CheckAttemptDone(r) ==
  /\ req[r].inflight
  /\ \E outcome \in Outcomes :
       Commit(r, HttpCallAttemptDone(Ctx(r), outcome))

DecodeData(r) ==
  /\ req[r].state_ # "Init"
  /\ ~req[r].destroyed /\ ~req[r].logged /\ ~req[r].body_ended
  /\ \E end_stream \in BOOLEAN :
       Commit(r, decodeData(Ctx(r), end_stream))

DecodeTrailers(r) ==
  /\ req[r].state_ # "Init"
  /\ ~req[r].destroyed /\ ~req[r].logged /\ ~req[r].body_ended
  /\ Commit(r, decodeTrailers(Ctx(r)))

BackendResponse(r) ==
  /\ HeadersForwarded(req[r])
  /\ req[r].response_code = 0
  /\ ~req[r].destroyed
  /\ Commit(r, backendResponse(Ctx(r)))

OnDestroy(r) ==
  /\ req[r].state_ # "Init"
  /\ req[r].destroy_calls < MaxDestroyCalls
  /\ Commit(r, streamDestroy(Ctx(r)))

Log(r) ==
  /\ ~req[r].logged
  /\ ResponseFinalized(req[r])
  /\ \E now \in Clock : Commit(r, log(Ctx(r), now))

ReportDone(r) ==
  /\ req[r].report = "inflight"
  /\ \E status \in {"OK", "UNAVAILABLE"} :
       Commit(r, reportDone(Ctx(r), status))

Init ==
  /\ req = [r \in Reqs |-> NewFilter]
  /\ stats = [allowed_ |-> 0, denied_ |-> 0]
  /\ next_uuid = 0
  /\ max_retries \in 0..MaxRetries
  /\ cache = NewTokenCache
  /\ path_matcher_ = NewPathMatcher

Next ==
  \E r \in Reqs :
    \/ DecodeHeaders(r)
    \/ TokenDone(r)
    \/ CheckAttemptDone(r)
    \/ DecodeData(r)
    \/ DecodeTrailers(r)
    \/ BackendResponse(r)
    \/ OnDestroy(r)
    \/ Log(r)
    \/ ReportDone(r)

Spec == Init /\ [][Next]_vars

\* ------------------------------------------------------------------ claims
\* ------------------------------------------------- the token cache at work
CacheGetToken(k) ==
  /\ cache.got[k].status = "none"
  /\ cache.fetches < MaxFetches
  /\ cache' = cacheGetToken(cache, k)
  /\ UNCHANGED <<req, stats, next_uuid, max_retries, path_matcher_>>

CacheFetchDone ==
  /\ cache.fetching
  /\ \E status \in {"OK"} \cup TokenFailures, token \in Tokens :
       cache' = cacheFetchDone(cache, status, token)
  /\ UNCHANGED <<req, stats, next_uuid, max_retries, path_matcher_>>

CacheRefresh ==
  /\ cache.done > 0
  /\ cache.fetches < MaxFetches
  /\ cache' = cacheRefresh(cache)
  /\ UNCHANGED <<req, stats, next_uuid, max_retries, path_matcher_>>

CacheTick ==
  /\ cache.ttl > 0
  /\ cache' = cacheTick(cache)
  /\ UNCHANGED <<req, stats, next_uuid, max_retries, path_matcher_>>

InitCache ==
  /\ req = [r \in Reqs |-> NewFilter]
  /\ stats = [allowed_ |-> 0, denied_ |-> 0]
  /\ next_uuid = 0
  /\ max_retries = 0
  /\ cache = NewTokenCache
  /\ path_matcher_ = NewPathMatcher

NextCache ==
  \/ \E k \in Callers : CacheGetToken(k)
  \/ CacheFetchDone
  \/ CacheRefresh
  \/ CacheTick

SpecCache == InitCache /\ [][NextCache]_vars

\* ------------------------------------------------ the path matcher at work
\* Configuration load registers the url templates, requests look paths up.
MatcherInsert ==
  /\ Len(path_matcher_.trie.leaves) < MaxInserts
  /\ \E method \in HttpMethods, route \in UrlTemplates :
       LET res == Insert(path_matcher_.trie, method, route) IN
       path_matcher_' =
         [trie |-> res.trie,
          last |-> [op |-> "insert", method |-> method, arg |-> <<route.name>>,
                    ok |-> res.ok, error |-> res.error,
                    result |-> LookupNotFound]]
  /\ UNCHANGED <<req, stats, next_uuid, max_retries, cache>>

MatcherLookup ==
  /\ path_matcher_.last.op # "lookup"
  /\ \E method \in HttpMethods, path \in LookupPaths :
       LET res == FindRequirement(path_matcher_, method, path) IN
       path_matcher_' =
         [path_matcher_ EXCEPT
            !.last = [op |-> "lookup", method |-> method, arg |-> path,
                      ok |-> res.found, error |-> "", result |-> res]]
  /\ UNCHANGED <<req, stats, next_uuid, max_retries, cache>>

\* The caller of FindRequirement is done with the result.
MatcherReturn ==
  /\ path_matcher_.last.op = "lookup"
  /\ path_matcher_' = [path_matcher_ EXCEPT !.last = NoOp]
  /\ UNCHANGED <<req, stats, next_uuid, max_retries, cache>>

InitMatcher ==
  /\ req = [r \in Reqs |-> NewFilter]
  /\ stats = [allowed_ |-> 0, denied_ |-> 0]
  /\ next_uuid = 0
  /\ max_retries = 0
  /\ cache = NewTokenCache
  /\ path_matcher_ = NewPathMatcher

NextMatcher ==
  \/ MatcherInsert
  \/ MatcherLookup
  \/ MatcherReturn

SpecMatcher == InitMatcher /\ [][NextMatcher]_vars

\* ------------------------------------------ lookups on the built matcher
\* The FilterConfigParser constructor builds the matcher from the filter
\* configuration; worker threads then call FindRequirement side by side.
Lookers == {1, 2}

Route(method, name) ==
  [method |-> method, route |-> CHOOSE r \in UrlTemplates : r.name = name]

\* Filter configurations: the operations in configuration order.
Configs ==
  { << Route("GET", "GetBook"), Route("GET", "FirstShelfBook"),
       Route("GET", "Any") >>,
    << Route("GET", "GetShelfByName"), Route("POST", "GetBook") >>,
    << Route("POST", "Any"), Route("GET", "GetBook"),
       Route("GET", "GetBookAgain") >> }

\* The trie after the routes of a configuration are inserted in order; a
\* route that is refused leaves the trie as it was.
RECURSIVE BuildTrie(_, _)
BuildTrie(trie, config) ==
  IF config = <<>> THEN trie
  ELSE BuildTrie(Insert(trie, Head(config).method, Head(config).route).trie,
                 Tail(config))

IdleCall == [stage |-> "idle", method |-> "", path |-> <<>>,
             result |-> LookupNotFound]

\* Variant: a lookup that finds a route caches the path as a literal route to
\* the same value.
lookupEndMemoises(pm, k) ==
  LET call == pm.calls[k]
      res  == FindRequirement(pm, call.method, call.path)
      memo == [name |-> res.value,
               template |-> [i \in DOMAIN call.path |-> Lit(call.path[i])]]
  IN  [pm EXCEPT !.calls[k] = [call EXCEPT !.stage = "done", !.result = res],
                 !.trie = IF res.found
                            THEN Insert(@, call.method, memo).trie
                            ELSE @]

\* Lookup walks the trie and hands the result to its caller.
lookupEnd(pm, k) ==
  LET call == pm.calls[k] IN
  [pm EXCEPT !.calls[k] =
     [call EXCEPT !.stage = "done",
                  !.result = FindRequirement(pm, call.method, call.path)]]

LookupBegin(k) ==
  /\ path_matcher_.calls[k].stage = "idle"
  /\ \E method \in HttpMethods, path \in LookupPaths :
       path_matcher_' =
         [path_matcher_ EXCEPT
            !.calls[k] = [stage |-> "walking", method |-> method,
                          path |-> path, result |-> LookupNotFound]]
  /\ UNCHANGED <<req, stats, next_uuid, max_retries, cache>>

LookupEnd(k) ==
  /\ path_matcher_.calls[k].stage = "walking"
  /\ path_matcher_' = lookupEnd(path_matcher_, k)
  /\ UNCHANGED <<req, stats, next_uuid, max_retries, cache>>

LookupReturn(k) ==
  /\ path_matcher_.calls[k].stage = "done"
  /\ path_matcher_' = [path_matcher_ EXCEPT !.calls[k] = IdleCall]
  /\ UNCHANGED <<req, stats, next_uuid, max_retries, cache>>

InitLookups ==
  /\ req = [r \in Reqs |-> NewFilter]
  /\ stats = [allowed_ |-> 0, denied_ |-> 0]
  /\ next_uuid = 0
  /\ max_retries = 0
  /\ cache = NewTokenCache
  /\ \E config \in Configs :
       path_matcher_ = [trie |-> BuildTrie(EmptyTrie, config), last |-> NoOp,
                        config |-> config,
                        calls |-> [k \in Lookers |-> IdleCall]]

NextLookups ==
  \E k \in Lookers :
    \/ LookupBegin(k)
    \/ LookupEnd(k)
    \/ LookupReturn(k)

SpecLookups == InitLookups /\ [][NextLookups]_vars

\* ------------------------------------------- two requests in flight at once
\* Two filter objects on one worker, sharing config_ (counters, uuid source).
\* Each request's inputs are cut down to one of each kind: a pending or
\* failing token delivery, a token or a failure later, and a Check attempt
\* that fails in transport, is allowed, or is denied.
PairReqs == {1, 2}

PairHeaders ==
  [method |-> "POST", path |-> "/echo", query |-> << <<"key", "api-key">> >>,
   entries |-> <<>>]

PairOutcomes ==
  { TransportError,
    [kind |-> "response", body |-> [json_ok |-> TRUE, errors |-> <<>>]],
    [kind |-> "response", body |-> [json_ok |-> TRUE, errors |-> <<"API_KEY_INVALID">>]] }

PairDecodeHeaders(r) ==
  /\ req[r].state_ = "Init"
  /\ ~req[r].destroyed
  /\ \E delivery \in {"pending", "UNAVAILABLE"} :
       Commit(r, decodeHeaders(Ctx(r), PairHeaders, delivery, "tokA", TRUE, <<>>))

PairTokenDone(r) ==
  /\ req[r].sub = "pending"
  /\ \E status \in {"OK", "UNAVAILABLE"} :
       Commit(r, tokenDeliver(Ctx(r), status, "tokA", <<>>))

PairCheckAttemptDone(r) ==
  /\ req[r].inflight
  /\ \E outcome \in PairOutcomes :
       Commit(r, HttpCallAttemptDone(Ctx(r), outcome))

PairDestroy(r) ==
  /\ req[r].state_ # "Init"
  /\ ~req[r].destroyed
  /\ Commit(r, streamDestroy(Ctx(r)))

InitPair ==
  /\ req = [r \in PairReqs |-> NewFilter]
  /\ stats = [allowed_ |-> 0, denied_ |-> 0]
  /\ next_uuid = 0
  /\ max_retries \in 0..MaxRetries
  /\ cache = NewTokenCache
  /\ path_matcher_ = NewPathMatcher

NextPair ==
  \E r \in PairReqs :
    \/ PairDecodeHeaders(r)
    \/ PairTokenDone(r)
    \/ PairCheckAttemptDone(r)
    \/ DecodeData(r)
    \/ PairDestroy(r)
    \/ Log(r)

SpecPair == InitPair /\ [][NextPair]_vars

\* --------------------------------------- callbacks on a rejected request
\* One request with the inputs of the two-request runs, and collaborators
\* that may invoke the token callback or the Check callback once more on a
\* request that is already Responded.
lateTokenDone(c, status, token) ==
  [onTokenDone(c, status, token, <<>>) EXCEPT !.late = @ \cup {"token"}]

lateCheckResponse(c, status, body) ==
  [onCheckResponse(c, status, body) EXCEPT !.late = @ \cup {"check"}]

LateTokenDone(r) ==
  /\ req[r].state_ = "Responded"
  /\ ~req[r].destroyed
  /\ "token" \notin req[r].late
  /\ \E status \in {"OK"} \cup TokenFailures, token \in Tokens :
       Commit(r, lateTokenDone(Ctx(r), status, token))

LateCheckResponse(r) ==
  /\ req[r].state_ = "Responded"
  /\ ~req[r].destroyed
  /\ "check" \notin req[r].late
  /\ \E status \in {"OK"} \cup CallFailures, body \in Bodies :
       Commit(r, lateCheckResponse(Ctx(r), status, body))

NextLate ==
  \E r \in Reqs :
    \/ PairDecodeHeaders(r)
    \/ PairTokenDone(r)
    \/ PairCheckAttemptDone(r)
    \/ DecodeData(r)
    \/ PairDestroy(r)
    \/ Log(r)
    \/ LateTokenDone(r)
    \/ LateCheckResponse(r)

SpecLate == Init /\ [][NextLate]_vars

\* ------------------------------------------------- collaborators that answer
\* One request whose collaborators keep their word: a pending token callback
\* is invoked in the end, and a Check attempt in flight ends in the end
\* (answer, transport error or timeout), unless the request is torn down
\* first, which cancels both.
Fairness ==
  \A r \in Reqs :
    /\ WF_vars(PairTokenDone(r))
    /\ WF_vars(PairCheckAttemptDone(r))

NextLive ==
  \E r \in Reqs :
    \/ PairDecodeHeaders(r)
    \/ PairTokenDone(r)
    \/ PairCheckAttemptDone(r)
    \/ DecodeData(r)
    \/ DecodeTrailers(r)
    \/ PairDestroy(r)
    \/ Log(r)

SpecLive == Init /\ [][NextLive]_vars /\ Fairness


Rets(r, op) == {x[2] : x \in {y \in req[r].rets : y[1] = op}}

ReturnedContinue(r) ==
  \E op \in {"decodeHeaders", "decodeData", "decodeTrailers"} :
     "Continue" \in Rets(r, op)

Sent(r, type) == {i \in DOMAIN req[r].sc : req[r].sc[i].type = type}

AllowedOutcome(o) ==
  o.kind = "response" /\ o.body.json_ok /\ o.body.errors = <<>>

\* C1: while the call state is Calling nothing has been forwarded: no
\* decodeHeaders/decodeData/decodeTrailers call has returned Continue,
\* continueDecoding has not been invoked, and a decodeData (decodeTrailers)
\* call made now returns StopIterationAndWatermark (StopIteration).
ThmC1 ==
  \A r \in Reqs :
    req[r].state_ = "Calling" =>
      /\ ~ReturnedContinue(r)
      /\ req[r].continued = 0
      /\ decodeDataStatus(req[r]) = "StopIterationAndWatermark"
      /\ decodeTrailersStatus(req[r]) = "StopIteration"

WitC1 ==
  \E r \in Reqs :
    /\ req[r].state_ = "Calling"
    /\ "StopIterationAndWatermark" \in Rets(r, "decodeData")
    /\ "StopIteration" \in Rets(r, "decodeTrailers")
    /\ req[r].inflight

\* C2: once a request is Responded, no decodeHeaders/decodeData/
\* decodeTrailers call returns Continue, continueDecoding is never invoked
\* for it, and the client got the rejection reply.
CounterC2 ==
  \A r \in Reqs :
    req[r].state_ = "Responded" =>
      /\ ~ReturnedContinue(r)
      /\ req[r].continued = 0
      /\ Len(req[r].replies) >= 1

\* C3: a Check is on the wire only after the token cache delivered a token
\* with an OK status to this request, and every Check carries that token.
ThmC3 ==
  \A r \in Reqs :
    \A i \in Sent(r, "Check") :
      /\ req[r].sub = "delivered"
      /\ req[r].sub_token \in Tokens
      /\ req[r].sc[i].token = req[r].sub_token

WitC3 ==
  \E r \in Reqs :
    /\ Sent(r, "Check") # {}
    /\ req[r].sub_token = "tokB"
    /\ req[r].inflight

\* C4: the call state only moves forward along
\* Init -> Calling -> {Complete | Responded}; Complete and Responded are
\* never left, whatever callback runs.
StateRank(st) ==
  IF st = "Init" THEN 0 ELSE IF st = "Calling" THEN 1 ELSE 2

AllAttemptsFailed(c) ==
  c.attempts > 0 /\ c.fails = c.attempts

ThmC5 ==
  \A r \in Reqs :
    /\ req[r].attempts <= max_retries + 1
    /\ AllAttemptsFailed(req[r]) =>
         /\ req[r].attempts = max_retries + 1
         /\ Cardinality(Sent(r, "Check")) = max_retries + 1
         /\ req[r].state_ = "Responded"
         /\ req[r].replies = <<[code |-> 401, msg |-> "Check failed"]>>
         /\ ~HeadersForwarded(req[r])
    /\ (req[r].state_ = "Responded" /\ req[r].check_result.kind = "error")
         => req[r].attempts = max_retries + 1

WitC5 ==
  \E r \in Reqs :
    /\ max_retries = 2
    /\ AllAttemptsFailed(req[r])
    /\ req[r].attempts = 3
    /\ req[r].state_ = "Responded"

\* C6: when the k-th attempt is the first to bring an allowed Check
\* response, the request is forwarded, k-1 attempts failed before it
\* (k-1 retries, k <= R+1), and no attempt is sent afterwards.
ThmC6Inv ==
  \A r \in Reqs :
    req[r].state_ = "Complete" =>
      /\ AllowedOutcome(req[r].check_result)
      /\ req[r].attempts = req[r].fails + 1
      /\ req[r].attempts <= max_retries + 1
      /\ Cardinality(Sent(r, "Check")) = req[r].attempts
      /\ HeadersForwarded(req[r])
      /\ ~req[r].inflight

ThmC6 ==
  /\ []ThmC6Inv
  /\ [][\A r \in Reqs :
          req[r].state_ = "Complete" =>
            Sent(r, "Check") = {i \in DOMAIN req'[r].sc : req'[r].sc[i].type = "Check"}]_vars

WitC6 ==
  \E r \in Reqs :
    /\ max_retries = 2
    /\ req[r].state_ = "Complete"
    /\ req[r].fails = 2 /\ req[r].attempts = 3
    /\ req[r].continued = 1
    /\ req[r].logged

\* C7: a request whose matched operation sets SkipServiceControl asks for
\* no token, sends no Check, and is forwarded.
CounterC7 ==
  \A r \in Reqs :
    (req[r].state_ # "Init" /\ req[r].operation_name_ \in SkipServiceControl) =>
      /\ req[r].sub = "none"
      /\ Sent(r, "Check") = {}
      /\ HeadersForwarded(req[r])

\* C8: once the request is logged exactly one Report was sent for it, and
\* the Report says OK exactly when the request's Check ended allowed.
CounterC8 ==
  \A r \in Reqs :
    req[r].logged =>
      /\ Cardinality(Sent(r, "Report")) = 1
      /\ \A i \in Sent(r, "Report") :
           req[r].check_result.kind # "none" =>
             (req[r].sc[i].status = "OK" <=> AllowedOutcome(req[r].check_result))

\* C9: a Report is sent only after the response is finalized, and it is the
\* last thing the policy backend is sent for the request: every Check
\* precedes it.
ThmC9 ==
  \A r \in Reqs :
    \A i \in Sent(r, "Report") :
      /\ ResponseFinalized(req[r])
      /\ \A j \in Sent(r, "Check") : j < i

WitC9 ==
  \E r \in Reqs :
    /\ Sent(r, "Report") # {}
    /\ Cardinality(Sent(r, "Check")) = 2
    /\ req[r].response_code = 200

\* C10: one Report attempt at most, never retried, and the end of the
\* Report call, good or bad, changes nothing of the request but the Report
\* call's own status: call state, counters, replies, response code and what
\* was sent stay as they were.
ReportEnds(r) ==
  req[r].report = "inflight" /\ req'[r].report \in {"ok", "failed"}

ThmC10 ==
  /\ [](\A r \in Reqs : Cardinality(Sent(r, "Report")) <= 1)
  /\ [][\A r \in Reqs :
          ReportEnds(r) =>
            /\ req'[r] = [req[r] EXCEPT !.report = req'[r].report]
            /\ stats' = stats]_vars

WitC10 ==
  \E r \in Reqs :
    /\ req[r].report = "failed"
    /\ req[r].state_ = "Complete"
    /\ req[r].response_code = 200
    /\ stats.allowed_ = 1

\* C11: teardown while Calling cancels the pending token subscription and
\* the Check attempt in flight; a destroyed request has neither left, and
\* from then on no onTokenDone and no onCheckResponse runs for it: its
\* subscription, token, Check result, attempts, call state, replies and the
\* counters stay as teardown left them.
FirstDestroy(r) ==
  req[r].destroy_calls = 0 /\ req'[r].destroy_calls = 1

ThmC11 ==
  /\ [](\A r \in Reqs :
          req[r].destroyed =>
            /\ ~req[r].token_fetcher_ /\ ~req[r].check_call_
            /\ req[r].sub # "pending" /\ ~req[r].inflight)
  /\ [][\A r \in Reqs :
          (FirstDestroy(r) /\ req[r].state_ = "Calling") =>
            /\ req[r].sub = "pending" =>
                 (req'[r].sub = "cancelled"
                    /\ req'[r].sub_cancels = req[r].sub_cancels + 1)
            /\ req[r].inflight =>
                 (~req'[r].inflight
                    /\ req'[r].call_cancels = req[r].call_cancels + 1)]_vars
  /\ [][\A r \in Reqs :
          req[r].destroyed =>
            /\ req'[r].state_ = req[r].state_
            /\ req'[r].sub = req[r].sub
            /\ req'[r].sub_token = req[r].sub_token
            /\ req'[r].token_ = req[r].token_
            /\ req'[r].check_result = req[r].check_result
            /\ req'[r].attempts = req[r].attempts
            /\ req'[r].fails = req[r].fails
            /\ req'[r].replies = req[r].replies
            /\ req'[r].continued = req[r].continued
            /\ stats' = stats]_vars

WitC11 ==
  \E r \in Reqs :
    /\ req[r].destroyed /\ req[r].state_ = "Calling"
    /\ req[r].call_cancels = 1
    /\ req[r].fails = 1 /\ req[r].attempts = 2
    /\ req[r].report = "ok"

\* C12: a second onDestroy on the same request invokes no cancel handle and
\* changes no field of the request (only the count of onDestroy calls kept
\* for this property moves), whatever state the first one was called in.
RepeatedDestroy(r) ==
  req[r].destroy_calls >= 1 /\ req'[r].destroy_calls = req[r].destroy_calls + 1

ThmC12 ==
  [][\A r \in Reqs :
       RepeatedDestroy(r) =>
         /\ req'[r] = [req[r] EXCEPT !.destroy_calls = @ + 1]
         /\ stats' = stats]_vars

WitC12 ==
  \E r \in Reqs :
    /\ req[r].destroy_calls = 2
    /\ req[r].state_ = "Calling"
    /\ req[r].sub = "cancelled" /\ req[r].sub_cancels = 1

\* C13: onDestroy on a request that is already Complete or Responded
\* invokes neither the token-fetch canceller nor the Check call's cancel,
\* also when token and Check response arrived inside decodeHeaders. (The
\* call state of a destroyed request is the one it was destroyed in, and
\* only onDestroy invokes a cancel.)
CounterC13 ==
  \A r \in Reqs :
    (req[r].destroyed /\ req[r].state_ \in {"Complete", "Responded"}) =>
      /\ req[r].sub_cancels = 0
      /\ req[r].call_cancels = 0

\* C14: a request whose token fetch ended with a non-OK status is
\* Responded, was sent the one 401 "Failed to fetch access_token" reply,
\* has no Check dispatched and is not forwarded, and stays so.
TokenFetchFailed(c) ==
  c.sub = "delivered" /\ c.sub_token = ""

ThmC14 ==
  \A r \in Reqs :
    TokenFetchFailed(req[r]) =>
      /\ req[r].state_ = "Responded"
      /\ req[r].replies = <<[code |-> 401, msg |-> "Failed to fetch access_token"]>>
      /\ req[r].unauthorized_flag
      /\ Sent(r, "Check") = {} /\ req[r].attempts = 0 /\ ~req[r].check_call_
      /\ ~HeadersForwarded(req[r])
      /\ stats.denied_ = 1 /\ stats.allowed_ = 0

WitC14 ==
  \E r \in Reqs :
    /\ TokenFetchFailed(req[r])
    /\ req[r].state_ = "Responded"
    /\ <<"decodeHeaders", "StopIteration">> \in req[r].rets
    /\ req[r].body_ended
    /\ req[r].report = "ok"

\* C15: a request is Complete only when its Check call ended with an OK
\* transport status, a body that decoded, and an empty error list; when the
\* Check call ended any other way (transport failure, undecodable body,
\* some check error) the request is Responded, counted denied, sent the
\* 401 "Check failed" reply, and not forwarded.
ThmC15 ==
  \A r \in Reqs :
    /\ req[r].state_ = "Complete" =>
         /\ req[r].check_result.kind = "response"
         /\ req[r].check_result.body.json_ok
         /\ req[r].check_result.body.errors = <<>>
         /\ stats.allowed_ = 1 /\ stats.denied_ = 0
    /\ (req[r].check_result.kind # "none" /\ ~AllowedOutcome(req[r].check_result)) =>
         /\ req[r].state_ = "Responded"
         /\ req[r].replies = <<[code |-> 401, msg |-> "Check failed"]>>
         /\ stats.allowed_ = 0 /\ stats.denied_ = 1
         /\ ~HeadersForwarded(req[r])

WitC15 ==
  \E r \in Reqs :
    /\ req[r].check_result = [kind |-> "response", body |-> NoBody]
    /\ req[r].state_ = "Responded"
    /\ req[r].fails = 1
    /\ req[r].logged

\* C16: a Report carries the request's api key only if a Check response of
\* that request was processed and did not flag the key: a request rejected
\* before any Check response was processed (token fetch failed, Check
\* transport failure, undecodable body), or whose Check said
\* API_KEY_INVALID, reports no api key.
KeyValidated(o) ==
  /\ o.kind = "response" /\ o.body.json_ok
  /\ o.body.errors # <<>> => Head(o.body.errors) # "API_KEY_INVALID"

CounterC16 ==
  \A r \in Reqs :
    \A i \in Sent(r, "Report") :
      req[r].sc[i].api_key # "" => KeyValidated(req[r].check_result)

\* C17: a request without api key to an operation that allows calls
\* without one has no Check sent for it, and once it is logged it was
\* forwarded and exactly one Report was sent for it.
CounterC17 ==
  \A r \in Reqs :
    (/\ req[r].state_ # "Init"
     /\ req[r].operation_name_ \in AllowUnregisteredCalls
     /\ req[r].api_key_ = "") =>
      /\ Sent(r, "Check") = {}
      /\ req[r].logged =>
           (HeadersForwarded(req[r]) /\ Cardinality(Sent(r, "Report")) = 1)

\* C19: what the client is sent on rejection is one of two fixed replies,
\* decided by the kind of failure alone (token fetch / Check): whatever
\* failure status the token fetch ends with, and whatever failure status,
\* undecodable body or check errors the Check call ends with, the reply and
\* the response code are the same.
RejectionReplies ==
  { [code |-> 401, msg |-> "Failed to fetch access_token"],
    [code |-> 401, msg |-> "Check failed"] }

\* The ways a Check call can end in failure, as onCheckResponse sees them.
FailedChecks ==
  {<<s, NoBody>> : s \in CallFailures}
  \cup {<<"OK", b>> : b \in {x \in Bodies : ~x.json_ok \/ x.errors # <<>>}}

ClientView(c) == <<c.replies, c.response_code>>

ThmC19 ==
  \A r \in Reqs :
    /\ \A i \in DOMAIN req[r].replies : req[r].replies[i] \in RejectionReplies
    /\ req[r].replies # <<>> =>
         /\ req[r].state_ = "Responded"
         /\ req[r].response_code = 401
         /\ req[r].replies =
              <<[code |-> 401,
                 msg |-> IF TokenFetchFailed(req[r])
                           THEN "Failed to fetch access_token"
                           ELSE "Check failed"]>>
    /\ req[r].sub = "pending" =>
         \A s1, s2 \in TokenFailures, t1, t2 \in Tokens :
           /\ ClientView(tokenDeliver(Ctx(r), s1, t1, <<>>))
                = ClientView(tokenDeliver(Ctx(r), s2, t2, <<>>))
           /\ tokenDeliver(Ctx(r), s1, t1, <<>>).replies # <<>>
    /\ req[r].inflight =>
         \A x, y \in FailedChecks :
           /\ ClientView(onCheckResponse(Ctx(r), x[1], x[2]))
                = ClientView(onCheckResponse(Ctx(r), y[1], y[2]))
           /\ onCheckResponse(Ctx(r), x[1], x[2]).replies # <<>>

WitC19 ==
  \E r \in Reqs :
    /\ req[r].replies = <<[code |-> 401, msg |-> "Check failed"]>>
    /\ req[r].check_result =
         [kind |-> "response",
          body |-> [json_ok |-> TRUE, errors |-> <<"API_KEY_INVALID">>]]
    /\ req[r].check_status_ = "INVALID_ARGUMENT"
    /\ req[r].logged

\* C18: with two requests in flight, every step changes the record of one
\* request only; in particular when a request is rejected (token fetch
\* failed, Check denied, Check failed in transport) or torn down, the call
\* state, the forward/reject decision and the pending Check of the other
\* request are what they were.
Rejected(r) ==
  req[r].state_ = "Calling" /\ req'[r].state_ = "Responded"

TornDown(r) ==
  ~req[r].destroyed /\ req'[r].destroyed

ThmC18 ==
  [][\A r \in PairReqs : \A o \in PairReqs \ {r} :
       /\ req'[r] # req[r] => req'[o] = req[o]
       /\ (Rejected(r) \/ TornDown(r)) =>
            /\ req'[o].state_ = req[o].state_
            /\ req'[o].replies = req[o].replies
            /\ req'[o].continued = req[o].continued
            /\ req'[o].rets = req[o].rets
            /\ req'[o].inflight = req[o].inflight
            /\ req'[o].check_call_ = req[o].check_call_
            /\ req'[o].attempts = req[o].attempts
            /\ req'[o].sub = req[o].sub]_vars

WitC18 ==
  /\ req[2].uuid_ = 1 /\ req[1].uuid_ = 2
  /\ req[1].state_ = "Responded" /\ req[1].check_result.kind = "error"
  /\ req[1].destroyed
  /\ req[2].state_ = "Calling" /\ req[2].inflight /\ req[2].fails = 1

\* C20: until the first credential fetch of the key resolves, however many
\* callers asked for the token there is exactly one outbound fetch and they
\* all wait behind it; when a fetch resolves nobody is left waiting, and
\* all callers it served were handed the same status and token.
Asked == {k \in Callers : cache.got[k].status # "none"}

ServedBy(f) == {k \in Callers : cache.got[k].fetch = f}

ThmC20 ==
  /\ cache.done = 0 =>
       /\ cache.fetches = IF Asked = {} THEN 0 ELSE 1
       /\ cache.fetching <=> Asked # {}
       /\ cache.waiters = Asked
  /\ cache.waiters = {k \in Callers : cache.got[k].status = "waiting"}
  /\ ~cache.fetching => cache.waiters = {}
  /\ \A f \in 1..MaxFetches :
       \A k1, k2 \in ServedBy(f) :
         /\ cache.got[k1].status = cache.got[k2].status
         /\ cache.got[k1].token = cache.got[k2].token
         /\ cache.got[k1].status = "OK" => cache.got[k1].token \in Tokens

WitC20 ==
  /\ cache.fetches = 1 /\ cache.done = 1
  /\ ServedBy(1) = Callers
  /\ \A k \in Callers :
       /\ cache.got[k].status = "OK" /\ cache.got[k].token = "tokB"
       /\ cache.got[k].invoked = 1

\* C21: a GetToken call that finds the cached token valid is handed that
\* token at once. Inside the safety margin the first such call begins
\* exactly one refresh fetch; a call made while the refresh is in flight
\* begins none and is still handed the previous token, which the call
\* leaves cached. A call that finds the token outside the margin begins no
\* fetch.
GetTokenBy(k) ==
  cache.got[k].status = "none" /\ cache'.got[k].status # "none"

FetchFails ==
  /\ cache.fetching /\ cache'.done = cache.done + 1
  /\ cache'.last = "TokenFetchError"

ThmC22 ==
  /\ [](\A k \in Callers :
          /\ cache.got[k].invoked <= 1
          /\ cache.got[k].invoked = 1 <=>
               cache.got[k].status \in {"OK", "TokenFetchError"}
          /\ cache.got[k].status = "TokenFetchError" =>
               (cache.got[k].token = "" /\ cache.got[k].fetch >= 1))
  /\ [][(FetchFails /\ ~tokenValid(cache)) =>
          /\ cache'.waiters = {}
          /\ \A k \in Callers :
               IF k \in cache.waiters
                 THEN /\ cache'.got[k].status = "TokenFetchError"
                      /\ cache'.got[k].token = ""
                      /\ cache'.got[k].invoked = 1
                      /\ cache'.got[k].fetch = cache.fetches
                 ELSE cache'.got[k] = cache.got[k]]_vars

WitC22 ==
  /\ cache.last = "TokenFetchError" /\ cache.token = ""
  /\ cache.done = 1
  /\ \A k \in Callers :
       /\ cache.got[k].status = "TokenFetchError"
       /\ cache.got[k].fetch = 1 /\ cache.got[k].invoked = 1

\* C23: a refresh fetch that fails leaves the cached token and what is left
\* of its lifetime as they were; while it has not expired GetToken callers
\* are still handed it, and the refresh timer can begin another fetch.
ThmC23 ==
  /\ [][FetchFails =>
          /\ cache'.token = cache.token /\ cache'.ttl = cache.ttl
          /\ tokenValid(cache) => tokenValid(cache')]_vars
  /\ [][\A k \in Callers :
          (GetTokenBy(k) /\ cache.last = "TokenFetchError" /\ tokenValid(cache)) =>
            /\ cache'.got[k].status = "OK"
            /\ cache'.got[k].token = cache.token
            /\ cache'.token = cache.token]_vars
  /\ []((cache.last = "TokenFetchError" /\ ~cache.fetching
           /\ cache.fetches < MaxFetches) =>
          ENABLED (CacheRefresh /\ cache'.fetching))

WitC23 ==
  /\ cache.last = "TokenFetchError" /\ tokenValid(cache)
  /\ cache.done = 2
  /\ \E k \in Callers :
       /\ cache.got[k].status = "OK" /\ cache.got[k].fetch = 0
       /\ cache.got[k].ended = 2
       /\ cache.got[k].token = cache.token

\* What was put in place of the segments of variable v when the path was
\* made from the template.
RECURSIVE Substituted(_, _, _, _, _)
Substituted(template, f, tail, v, i) ==
  IF i > Len(template) THEN <<>>
  ELSE (IF template[i].var # v THEN <<>>
        ELSE IF template[i].kind = "lit" THEN <<template[i].lit>>
        ELSE IF template[i].kind = "*" THEN <<f[i]>>
        ELSE tail) \o Substituted(template, f, tail, v, i + 1)

ExpectedBindings(template, f, tail) ==
  LET names == VarsFrom(template, 1, {}) IN
  [n \in DOMAIN names |-> <<names[n], Substituted(template, f, tail, names[n], 1)>>]

LeavesOf(method) ==
  {i \in DOMAIN path_matcher_.trie.leaves :
     path_matcher_.trie.leaves[i].method = method}

RoundTrip(i, x) ==
  path_matcher_.last.result =
    [found |-> TRUE, value |-> path_matcher_.trie.leaves[i].value,
     bindings |-> ExpectedBindings(path_matcher_.trie.leaves[i].template, x[1], x[2])]

RouteNamed(name) == CHOOSE r \in UrlTemplates : r.name = name

ThmC25 ==
  /\ [](\A i, j \in DOMAIN path_matcher_.trie.leaves :
          (/\ i # j
           /\ path_matcher_.trie.leaves[i].method = path_matcher_.trie.leaves[j].method)
            => path_matcher_.trie.leaves[i].key # path_matcher_.trie.leaves[j].key)
  /\ [][path_matcher_'.last.op = "insert" =>
          LET m == path_matcher_'.last.method
              key == CompileTemplate(RouteNamed(path_matcher_'.last.arg[1]).template)
          IN  IF \E i \in LeavesOf(m) : path_matcher_.trie.leaves[i].key = key
                THEN /\ ~path_matcher_'.last.ok
                     /\ path_matcher_'.last.error = "AmbiguousRouteError"
                     /\ path_matcher_'.trie = path_matcher_.trie
                ELSE /\ path_matcher_'.last.ok
                     /\ Len(path_matcher_'.trie.leaves)
                          = Len(path_matcher_.trie.leaves) + 1
                     /\ SubSeq(path_matcher_'.trie.leaves, 1,
                               Len(path_matcher_.trie.leaves))
                          = path_matcher_.trie.leaves]_vars

WitC25 ==
  /\ path_matcher_.last.op = "insert"
  /\ ~path_matcher_.last.ok
  /\ path_matcher_.last.error = "AmbiguousRouteError"
  /\ path_matcher_.last.arg = <<"GetBookAgain">>
  /\ Len(path_matcher_.trie.leaves) = 2
  /\ \A i \in DOMAIN path_matcher_.trie.leaves :
       path_matcher_.trie.leaves[i].value = "GetBook"

\* C26: of the templates of the method that match the looked-up path, the
\* lookup returns the one that, at the first segment where it differs from
\* each other one, has the literal rather than `*` or `**`, or `*` rather
\* than `**`; it returns not-found exactly when none matches. The order in
\* which the templates were bound plays no part.
Rank(transition) ==
  IF transition[1] = "lit" THEN 0 ELSE IF transition[1] = "*" THEN 1 ELSE 2

Precedes(k1, k2) ==
  \E n \in 1..Len(k1) :
    /\ n <= Len(k2)
    /\ SubSeq(k1, 1, n - 1) = SubSeq(k2, 1, n - 1)
    /\ Rank(k1[n]) < Rank(k2[n])

ThmC26 ==
  path_matcher_.last.op = "lookup" =>
    LET hits == {i \in LeavesOf(path_matcher_.last.method) :
                   Matches(path_matcher_.trie.leaves[i].template,
                           path_matcher_.last.arg)}
    IN  IF hits = {} THEN ~path_matcher_.last.result.found
        ELSE /\ path_matcher_.last.result.found
             /\ \E i \in hits :
                  /\ path_matcher_.last.result.value
                       = path_matcher_.trie.leaves[i].value
                  /\ \A j \in hits \ {i} :
                       Precedes(path_matcher_.trie.leaves[i].key,
                                path_matcher_.trie.leaves[j].key)

WitC26 ==
  /\ path_matcher_.last.op = "lookup"
  /\ path_matcher_.last.method = "GET"
  /\ path_matcher_.last.arg = <<"v1", "shelves", "1", "books", "5">>
  /\ Len(path_matcher_.trie.leaves) = 3
  /\ path_matcher_.trie.leaves[1].value = "Any"
  /\ path_matcher_.trie.leaves[2].value = "GetBook"
  /\ path_matcher_.trie.leaves[3].value = "FirstShelfBook"
  /\ \A i \in 1..3 : path_matcher_.trie.leaves[i].method = "GET"
  /\ path_matcher_.last.result.value = "FirstShelfBook"


\* ------------------------------------------------------------- C27
\* The operation's API-key locations: header names in configuration order,
\* then query-parameter names in configuration order.
ApiKeyLocations == [headers |-> <<"x-api-key">>, queries |-> <<"key">>]

\* The value of the first of the named locations present in the entries, ""
\* when none is.
RECURSIVE FirstPresent(_, _)
FirstPresent(names, entries) ==
  IF names = <<>> THEN ""
  ELSE IF FindParam(entries, Head(names)) # "" THEN FindParam(entries, Head(names))
  ELSE FirstPresent(Tail(names), entries)

ScannedApiKey(headers) ==
  IF FirstPresent(ApiKeyLocations.headers, headers.entries) # ""
    THEN FirstPresent(ApiKeyLocations.headers, headers.entries)
    ELSE FirstPresent(ApiKeyLocations.queries, headers.query)

\* C27: once the request headers are handled, the request's api key is the
\* value of the first API-key location present in the request, header
\* locations scanned before query-parameter locations, and is empty when no
\* location is present.
CounterC27 ==
  \A r \in DOMAIN req :
     req[r].state_ # "Init" =>
        req[r].api_key_ = ScannedApiKey(req[r].request_headers)
\* ------------------------------------------------------------- C28
\* The Report payloads that an access-log call made now can put on the wire.
ReportsBuilt(r) == {log(Ctx(r), now).sc[Len(req[r].sc) + 1] : now \in Clock}

\* C28: building the Report of a request from the same request info, Check
\* outcome and response status gives the same payload whenever it is built:
\* at each point where the access-log handler can run there is one payload
\* it can send.
CounterC28 ==
  \A r \in DOMAIN req :
     (~req[r].logged /\ ResponseFinalized(req[r])) =>
        Cardinality(ReportsBuilt(r)) = 1
\* ------------------------------------------------------------- C29
HeadersHandled(r) == req[r].state_ # "Init"

\* C29: a request whose headers were handled has an operation id of its own,
\* different from the id of every other request, and every Check and Report
\* payload sent for the request carries that id.
ThmC29 ==
  /\ \A r \in DOMAIN req : HeadersHandled(r) => req[r].uuid_ # NewFilter.uuid_
  /\ \A r1, r2 \in DOMAIN req :
        (r1 # r2 /\ HeadersHandled(r1) /\ HeadersHandled(r2)) =>
           req[r1].uuid_ # req[r2].uuid_
  /\ \A r \in DOMAIN req : \A i \in DOMAIN req[r].sc :
        req[r].sc[i].operation_id = req[r].uuid_

WitC29 ==
  /\ \A r \in DOMAIN req :
        /\ Sent(r, "Check") # {}
        /\ Sent(r, "Report") # {}
  /\ Cardinality({req[r].uuid_ : r \in DOMAIN req}) = 2
\* ------------------------------------------------------------- C30
\* The result of one lookup made alone on a matcher freshly built from the
\* configuration.
IsolatedLookup(method, path) ==
  Lookup(BuildTrie(EmptyTrie, path_matcher_.config), method, path)

LookupsFinished ==
  {k \in DOMAIN path_matcher_.calls : path_matcher_.calls[k].stage = "done"}

Paused(r) == "StopIteration" \in Rets(r, "decodeHeaders")

PassedInline(r) == "Continue" \in Rets(r, "decodeHeaders")

\* C31: continueDecoding is invoked at most once, and it has been invoked
\* exactly when the request is Complete after decodeHeaders returned
\* StopIteration; a request allowed inside decodeHeaders got Continue as the
\* return value and is never resumed; no request is both passed on by the
\* return value and resumed.
ThmC31 ==
  \A r \in DOMAIN req :
    /\ req[r].continued <= 1
    /\ req[r].continued = 1 <=> (req[r].state_ = "Complete" /\ Paused(r))
    /\ (req[r].state_ = "Complete" /\ ~req[r].stopped_) =>
          (PassedInline(r) /\ req[r].continued = 0)
    /\ ~(PassedInline(r) /\ req[r].continued > 0)
    /\ ~(PassedInline(r) /\ Paused(r))

\* The token came after decodeHeaders had returned, the Check was allowed
\* and the paused request was resumed.
WitC31 ==
  \E r \in DOMAIN req :
    /\ Paused(r) /\ ~PassedInline(r)
    /\ req[r].state_ = "Complete"
    /\ req[r].continued = 1
    /\ AllowedOutcome(req[r].check_result)
\* ------------------------------------------------------------- C32
InState(st) == {r \in DOMAIN req : req[r].state_ = st}

ThmC33 ==
  /\ [](\A r \in DOMAIN req :
          req[r].state_ = "Responded" =>
            /\ \A status \in {"OK"} \cup TokenFailures, token \in Tokens,
                  script \in {<<>>, <<TransportError>>} :
                  onTokenDone(Ctx(r), status, token, script)
                    = [Ctx(r) EXCEPT !.token_fetcher_ = FALSE]
            /\ \A status \in {"OK"} \cup CallFailures, body \in Bodies :
                  onCheckResponse(Ctx(r), status, body)
                    = [Ctx(r) EXCEPT !.check_call_ = FALSE])
  /\ [][\A r \in DOMAIN req :
          req'[r].late # req[r].late =>
            /\ stats' = stats
            /\ req'[r] = [req[r] EXCEPT !.late = req'[r].late,
                                        !.token_fetcher_ = req'[r].token_fetcher_,
                                        !.check_call_ = req'[r].check_call_]
            /\ req[r].token_fetcher_ \/ ~req'[r].token_fetcher_
            /\ req[r].check_call_ \/ ~req'[r].check_call_]_vars

\* A rejected request was handed both callbacks once more and is as it was:
\* one reply, one count, no Check since, and no handle left.
WitC33 ==
  \E r \in DOMAIN req :
    /\ req[r].state_ = "Responded"
    /\ req[r].late = {"token", "check"}
    /\ ~req[r].token_fetcher_ /\ ~req[r].check_call_
    /\ Len(req[r].replies) = 1
    /\ req[r].continued = 0
    /\ stats = [allowed_ |-> 0, denied_ |-> 1]
\* ------------------------------------------------------------- C34
\* C34: the token-fetch cancel handle is set only while the request's token
\* fetch is pending (its callback has not run), and the Check call handle is
\* set only while a Check call is in flight, also when the cache invoked the
\* callback inside getToken.
CounterC34 ==
  \A r \in DOMAIN req :
    /\ req[r].token_fetcher_ => req[r].sub = "pending"
    /\ req[r].check_call_ => req[r].inflight
\* ------------------------------------------------------------- C35
\* C35: every Report is sent with a bearer token, the one the token cache
\* delivered to the request and its Check was sent with; no Report goes out
\* with an empty token, whether the token fetch failed or the request was
\* torn down before the token came.
CounterC35 ==
  \A r \in DOMAIN req :
    \A i \in Sent(r, "Report") :
      /\ req[r].sc[i].token \in Tokens
      /\ req[r].sc[i].token = req[r].sub_token
      /\ \A j \in Sent(r, "Check") : req[r].sc[j].token = req[r].sc[i].token
\* ------------------------------------------------------------- C36
Decided(r) == req[r].state_ \in {"Complete", "Responded"}

\* C36: when the token cache invokes the token callback in the end and
\* every dispatched Check call ends in the end, a request whose headers were
\* received and that is Calling is decided (Complete or Responded) or
\* destroyed in the end; it does not stay paused for ever.
ThmC36 ==
  \A r \in Reqs :
    (req[r].state_ = "Calling") ~> (Decided(r) \/ req[r].destroyed)

\* A paused request that waited for the token and for a retried Check was
\* decided while its stream was still there.
WitC36 ==
  \E r \in Reqs :
    /\ Decided(r) /\ ~req[r].destroyed
    /\ Paused(r)
    /\ req[r].fails >= 1
    /\ req[r].sub = "delivered"
====
